---- MODULE Spec2Model ----
(***************************************************************************)
(* polysplit.cpp: split_polygons (the recursive quadrant splitter) and the *)
(* main loop that feeds it one feature at a time.                          *)
(*                                                                         *)
(* Geometry is modelled on the integer coordinate grid: a polygonal region *)
(* is a finite set of unit cells, the cell <<x, y>> covering               *)
(* [x, x+1] x [y, y+1].  One grid unit is the coordinate resolution: a     *)
(* centroid is rounded to the nearest grid coordinate (ties to even), the  *)
(* way a double rounds to the nearest representable value.                 *)
(***************************************************************************)
EXTENDS Integers, Sequences, FiniteSets, TLC

(* ------------------------------ bounds -------------------------------- *)

\* Frames the call stack holds before the process dies of stack exhaustion.
MaxDepth == 8

\* NULL-geometry warnings counted; further ones are not told apart.
MaxWarnings == 2

\* Features of the input layer.
MaxRecords == 2

\* Largest area (in cells) of an input geometry drawn from the window.
MaxArea == 6

\* Coordinate window the input geometries are drawn from.
Xs == 0 .. 2
Ys == 0 .. 3

\* Side of the square of the concrete scenario (0,0),(10,0),(10,10),(0,10).
SquareCells == (0 .. 9) \X (0 .. 9)

(* --------------------------- geometry values -------------------------- *)

\* An OGRGeometry: its type tag, its polygonal members (cell sets, one per
\* polygon), the cells a self-crossing ring winds the wrong way round (only
\* an invalid polygon has any), and whether it has lineal or puntal members.
Geom(kind, parts, neg, lower) ==
    [kind |-> kind, parts |-> parts, neg |-> neg, lower |-> lower]

Polygon(cells) == Geom("Polygon", <<cells>>, {}, FALSE)

CellsOf(g) == UNION {g.parts[i] : i \in DOMAIN g.parts}

Adj4(c, d) ==
    \/ c[1] = d[1] /\ (c[2] = d[2] + 1 \/ d[2] = c[2] + 1)
    \/ c[2] = d[2] /\ (c[1] = d[1] + 1 \/ d[1] = c[1] + 1)

Adj8(c, d) ==
    /\ c # d
    /\ c[1] - d[1] \in {-1, 0, 1}
    /\ c[2] - d[2] \in {-1, 0, 1}

\* F applied to the value of v: the quantifier binds x to the value, so a
\* recursive definition does not compute its argument again at each use.
ValueOf(v, F(_)) == CHOOSE r \in {F(x) : x \in {v}} : TRUE

\* The set S with its elements listed.
Listed(S) == {x : x \in S}

\* The cells of a region reached from comp over shared edges.
RECURSIVE Grow4(_, _)
Grow4(comp, cells) ==
    ValueOf(<<Listed(comp), Listed(cells)>>, LAMBDA a :
        LET nb == {d \in Listed(a[2] \ a[1]) : \E c \in a[1] : Adj4(c, d)}
        IN  IF nb = {} THEN a[1] ELSE Grow4(a[1] \cup nb, a[2]))

\* The cells of a region reached from comp over shared edges or corners.
RECURSIVE Grow8(_, _)
Grow8(comp, cells) ==
    ValueOf(<<Listed(comp), Listed(cells)>>, LAMBDA a :
        LET nb == {d \in Listed(a[2] \ a[1]) : \E c \in a[1] : Adj8(c, d)}
        IN  IF nb = {} THEN a[1] ELSE Grow8(a[1] \cup nb, a[2]))

MinCell(cells) ==
    CHOOSE c \in cells :
        \A d \in cells : c[1] < d[1] \/ (c[1] = d[1] /\ c[2] <= d[2])

\* The edge-connected components of a region, each one polygon.
RECURSIVE Components(_)
Components(cells) ==
    ValueOf(Listed(cells), LAMBDA s :
        IF s = {} THEN <<>>
        ELSE ValueOf(Grow4({MinCell(s)}, s), LAMBDA comp :
                 <<comp>> \o Components(s \ comp)))

Connected4(cells) == cells = {} \/ Grow4({MinCell(cells)}, cells) = cells
Connected8(cells) == cells = {} \/ Grow8({MinCell(cells)}, cells) = cells

MinOf(S) == CHOOSE m \in S : \A n \in S : m <= n
MaxOf(S) == CHOOSE m \in S : \A n \in S : m >= n

\* The sum over the cells of twice the k-th coordinate of the cell's centre,
\* taken one coordinate value at a time.
RECURSIVE SumVals(_, _, _)
SumVals(cells, vals, k) ==
    ValueOf(<<Listed(cells), Listed(vals)>>, LAMBDA a :
        IF a[2] = {} THEN 0
        ELSE ValueOf(MinOf(a[2]), LAMBDA v :
                 (2 * v + 1) * Cardinality({c \in a[1] : c[k] = v})
                     + SumVals(a[1], a[2] \ {v}, k)))

SumCoord(cells, k) == SumVals(cells, {c[k] : c \in cells}, k)

(* ------------- the geometry engine (OGR / GEOS) operations ------------ *)

\* A null OGRGeometry pointer.
NullGeom == Geom("Null", <<>>, {}, FALSE)

\* What an intersection that collapses to lines or points returns.
LineGeom == Geom("LineString", <<>>, {}, TRUE)

\* GEOMETRYCOLLECTION EMPTY.
EmptyGeom == Geom("GeometryCollection", <<>>, {}, FALSE)

IsEmpty(g) == ~g.lower /\ CellsOf(g) = {}

getGeometryType(g) == g.kind

getNumGeometries(g) == Len(g.parts)

\* Ring vertices at lattice point <<vx, vy>>: one where one or three of the
\* four cells around it are filled, two where the ring touches itself
\* (two filled cells, diagonally opposite).
CornersAt(cells, vx, vy) ==
    LET a == <<vx - 1, vy - 1>> \in cells
        b == <<vx, vy - 1>> \in cells
        c == <<vx - 1, vy>> \in cells
        d == <<vx, vy>> \in cells
        n == (IF a THEN 1 ELSE 0) + (IF b THEN 1 ELSE 0)
             + (IF c THEN 1 ELSE 0) + (IF d THEN 1 ELSE 0)
    IN  IF n = 1 \/ n = 3 THEN 1
        ELSE IF n = 2 /\ ((a /\ d) \/ (b /\ c)) THEN 2
        ELSE 0

\* A variant of the point count that leaves the closing point out.
getNumPointsOpen(g) ==
    LET cells == CellsOf(g)
        vxs == {c[1] : c \in cells} \cup {c[1] + 1 : c \in cells}
        vys == {c[2] : c \in cells} \cup {c[2] + 1 : c \in cells}
        V == vxs \X vys
    IN  IF cells = {} THEN 0
        ELSE Cardinality({v \in V : CornersAt(cells, v[1], v[2]) = 1})
             + 2 * Cardinality({v \in V : CornersAt(cells, v[1], v[2]) = 2})

\* getExteriorRing()->getNumPoints(): the ring's vertices plus the closing
\* point, which repeats the first.
getNumPoints(g) ==
    LET cells == CellsOf(g)
        vxs == {c[1] : c \in cells} \cup {c[1] + 1 : c \in cells}
        vys == {c[2] : c \in cells} \cup {c[2] + 1 : c \in cells}
        V == vxs \X vys
    IN  IF cells = {} THEN 0
        ELSE Cardinality({v \in V : CornersAt(cells, v[1], v[2]) = 1})
             + 2 * Cardinality({v \in V : CornersAt(cells, v[1], v[2]) = 2})
             + 1

\* A polygon is valid when its ring neither crosses nor touches itself.
IsValid(g) == g.neg = {} /\ Connected4(CellsOf(g))

IsSimple(g) == g.neg = {} /\ Connected4(CellsOf(g))

\* A region as the engine hands it back: one polygon per component.
AsPolygonal(cells) ==
    LET comps == Components(cells)
    IN  IF Len(comps) = 1 THEN Polygon(cells)
        ELSE IF Len(comps) = 0 THEN Polygon({})
        ELSE Geom("MultiPolygon", comps, {}, FALSE)

\* Buffer(0): drops the lobes wound the wrong way round and separates the
\* lobes that only touch at a point.
Buffer(g) == AsPolygonal(CellsOf(g) \ g.neg)

RoundHalfEven(num, den) ==
    LET q == num \div den
        r == num % den
    IN  IF 2 * r > den \/ (2 * r = den /\ q % 2 = 1) THEN q + 1 ELSE q

\* Centroid(): the centre of mass, in the nearest representable coordinates.
Centroid(g) ==
    LET cells == CellsOf(g)
        n == Cardinality(cells)
    IN  IF n = 0 THEN <<0, 0>>
        ELSE <<RoundHalfEven(SumCoord(cells, 1), 2 * n),
               RoundHalfEven(SumCoord(cells, 2), 2 * n)>>

Envelope(minX, minY, maxX, maxY) ==
    [MinX |-> minX, MinY |-> minY, MaxX |-> maxX, MaxY |-> maxY]

getEnvelope(g) ==
    LET cells == CellsOf(g)
    IN  IF cells = {} THEN Envelope(0, 0, 0, 0)
        ELSE Envelope(MinOf({c[1] : c \in cells}), MinOf({c[2] : c \in cells}),
                      MaxOf({c[1] : c \in cells}) + 1,
                      MaxOf({c[2] : c \in cells}) + 1)

InMask(c, m) ==
    /\ m.MinX <= c[1] /\ c[1] < m.MaxX
    /\ m.MinY <= c[2] /\ c[2] < m.MaxY

Touches(c, m) ==
    /\ c[1] + 1 >= m.MinX /\ c[1] <= m.MaxX
    /\ c[2] + 1 >= m.MinY /\ c[2] <= m.MaxY

Clamp(v, lo, hi) == IF v < lo THEN lo ELSE IF v > hi THEN hi ELSE v

\* The cell of the mask that a cell outside it touches.
Nearest(c, m) ==
    <<Clamp(c[1], m.MinX, m.MaxX - 1), Clamp(c[2], m.MinY, m.MaxY - 1)>>

\* mask.Intersection(polygon), as the set of results the engine may give.
\* Inside the mask the result is the polygon's area there.  Where the
\* polygon only touches the mask from outside (along a mask edge or at a
\* mask corner with no area of the polygon behind it) the result also has
\* a line or a point, and its type is then a GeometryCollection, or a
\* LineString when there is no area at all.  A mask with no width or no
\* height is not a valid polygon: the engine may fail (NULL), or return an
\* empty or a lineal geometry.
Intersection(m, g) ==
    LET cells == CellsOf(g)
        inside == {c \in cells : InMask(c, m)}
        lower == \E c \in cells \ inside :
                     Touches(c, m) /\ Nearest(c, m) \notin cells
        comps == Components(inside)
    IN  IF m.MinX >= m.MaxX \/ m.MinY >= m.MaxY
            THEN {NullGeom, EmptyGeom, LineGeom}
        ELSE IF lower /\ inside # {}
            THEN {Geom("GeometryCollection", comps, {}, TRUE)}
        ELSE IF lower THEN {LineGeom}
        ELSE IF inside = {} THEN {EmptyGeom}
        ELSE {AsPolygonal(inside)}

(* ------------------------------- state -------------------------------- *)

VARIABLES
    max_vertices,      \* main's max_vertices, split_polygons' third argument
    id_field,          \* index of the ID field on the input layer, or -1
    total,             \* number of features of the input layer
    pc,                \* where main is
    features_read,
    features_written,
    feature,           \* the feature GetNextFeature returned
    id,                \* the identifier main computed for that feature
    it,                \* main's iterator over pieces
    pieces,            \* the OGRPolyList: pointers to the pieces
    stack,             \* the activation records of split_polygons
    heap,              \* the live geometries, by address
    out,               \* the features written to the output layer
    warnings,          \* NULL-geometry warnings printed to stderr (capped)
    fault,             \* a delete of an object that was already freed
    pre,               \* history: the piece list as the caller passed it
    returned           \* history: per feature, what split_polygons was given
                       \* and the pieces it returned

vars == <<max_vertices, id_field, total, pc, features_read, features_written,
          feature, id, it, pieces, stack, heap, out, warnings, fault, pre,
          returned>>

mainVars == <<max_vertices, id_field, total, pc, features_read,
              features_written, feature, id, it, out, pre, returned>>

\* A pointer: the heap object, and 0 for the object itself or k for the
\* k-th polygon inside it (what getGeometryRef(k - 1) returns).
Ref(obj, idx) == [obj |-> obj, idx |-> idx]

NoRef == Ref(0, 0)

Live(h, ref) == ref.obj \in DOMAIN h

Deref(h, ref) ==
    LET g == h[ref.obj]
    IN  IF ref.idx = 0 THEN g
        ELSE Geom("Polygon", <<g.parts[ref.idx]>>,
                  g.neg \cap g.parts[ref.idx], FALSE)

\* The address the allocator hands out next: the lowest one free (a freed
\* address is handed out again).
NewId(h) ==
    CHOOSE n \in 1 .. Cardinality(DOMAIN h) + 1 :
        /\ n \notin DOMAIN h
        /\ \A m \in 1 .. n - 1 : m \in DOMAIN h

\* new: the heap with one more object.  A NULL result allocates nothing.
Alloc(h, g) == IF g = NullGeom THEN h ELSE h @@ (NewId(h) :> g)

NewRef(h, g) == IF g = NullGeom THEN NoRef ELSE Ref(NewId(h), 0)

\* delete p: a no-op on NULL.
Delete(h, ref) ==
    IF ref = NoRef THEN h
    ELSE [n \in DOMAIN h \ {ref.obj} |-> h[n]]

DoubleFree(h, ref) == ref # NoRef /\ ~Live(h, ref)

ZeroEnv == Envelope(0, 0, 0, 0)

\* One activation of split_polygons: its argument and its locals.  nbuf is
\* history: the Buffer(0) calls this activation made.
Frame(geometry) ==
    [at |-> "entry", geometry |-> geometry, i |-> 0, polygon |-> NoRef,
     polygonIsPwned |-> FALSE, cornerX |-> 0, cornerY |-> 0,
     envelope |-> ZeroEnv, quadrant |-> 0, bbox |-> ZeroEnv,
     piece |-> NoRef, nbuf |-> 0]

Depth == Len(stack)

Top == stack[Depth]

Return == SubSeq(stack, 1, Depth - 1)

Goto(f) == [stack EXCEPT ![Depth] = f]

(* --------------------------- split_polygons --------------------------- *)

\* Variants of the comparison: one point too many let through, and the
\* polygon with exactly max_vertices points sent on to the subdivision.
FitsThresholdPlusOne(n, T) == n <= T + 1

FitsThresholdStrict(n, T) == n < T

\* polygon->getExteriorRing()->getNumPoints() <= max_vertices
FitsThreshold(n, T) == n <= T

\* A variant of the type test that lets a line through as well.
IsPolygonTypeOrLine(g) == getGeometryType(g) \in {"Polygon", "LineString"}

\* geometry->getGeometryType() == wkbPolygon
IsPolygonType(g) == getGeometryType(g) = "Polygon"

\* A variant of the member access that takes the first two members in the
\* opposite order.
MemberRefSwapped(ref, i) ==
    Ref(ref.obj, IF i = 0 THEN 2 ELSE IF i = 1 THEN 1 ELSE i + 1)

\* multi->getGeometryRef(i), i counting from 0
MemberRef(ref, i) == Ref(ref.obj, i + 1)

\* The pointer pushed onto pieces: a clone of the polygon.
PiecePushed(h, ref) == NewRef(h, Deref(h, ref))

\* A variant that keeps working on the argument after the repair.
SubjectOriginal(f) == f.geometry

\* The polygon the centroid, the envelope and the intersections are taken
\* of: the local variable polygon.
Subject(f) == f.polygon

\* A variant of the mask that is not cut at the centroid.
QuadrantMaskUncut(e, cornerX, cornerY, quadrant) ==
    Envelope(e.MinX, e.MinY, e.MaxX, e.MaxY)

\* OGREnvelope bbox(envelope), with one corner moved to the centroid.
QuadrantMask(e, cornerX, cornerY, quadrant) ==
    CASE quadrant = 0 -> Envelope(e.MinX, e.MinY, cornerX, cornerY)
      [] quadrant = 1 -> Envelope(e.MinX, cornerY, cornerX, e.MaxY)
      [] quadrant = 2 -> Envelope(cornerX, e.MinY, e.MaxX, cornerY)
      [] OTHER        -> Envelope(cornerX, cornerY, e.MaxX, e.MaxY)

\* A variant of the loop that frees nothing.
PieceDeletedNever(f) == NoRef

\* What the quadrant loop frees after the recursive call: piece.
PieceDeleted(f) == f.piece

InSplit == pc = "split" /\ Depth > 0

\* if (geometry == NULL) { warn; return; }
SplitNull ==
    /\ InSplit /\ Top.at = "entry"
    /\ Top.geometry = NoRef
    /\ warnings' = (IF warnings < MaxWarnings THEN warnings + 1 ELSE warnings)
    /\ stack' = Return
    /\ UNCHANGED <<mainVars, pieces, heap, fault>>

\* if (geometry->IsEmpty()) return;
SplitEmpty ==
    /\ InSplit /\ Top.at = "entry"
    /\ Top.geometry # NoRef
    /\ IsEmpty(Deref(heap, Top.geometry))
    /\ stack' = Return
    /\ UNCHANGED <<mainVars, pieces, heap, warnings, fault>>

\* if (getGeometryType() == wkbMultiPolygon): enter the loop over members.
SplitMulti ==
    /\ InSplit /\ Top.at = "entry"
    /\ Top.geometry # NoRef
    /\ LET g == Deref(heap, Top.geometry)
       IN  ~IsEmpty(g) /\ getGeometryType(g) = "MultiPolygon"
    /\ stack' = Goto([Top EXCEPT !.at = "multi", !.i = 0])
    /\ UNCHANGED <<mainVars, pieces, heap, warnings, fault>>

\* split_polygons(pieces, multi->getGeometryRef(i), max_vertices); i++
SplitMember ==
    /\ InSplit /\ Top.at = "multi"
    /\ Top.i < getNumGeometries(Deref(heap, Top.geometry))
    /\ Depth < MaxDepth
    /\ stack' = Append(Goto([Top EXCEPT !.i = Top.i + 1]),
                       Frame(MemberRef(Top.geometry, Top.i)))
    /\ UNCHANGED <<mainVars, pieces, heap, warnings, fault>>

\* The loop over the members is over: return.
SplitMultiDone ==
    /\ InSplit /\ Top.at = "multi"
    /\ Top.i >= getNumGeometries(Deref(heap, Top.geometry))
    /\ stack' = Return
    /\ UNCHANGED <<mainVars, pieces, heap, warnings, fault>>

\* if (getGeometryType() != wkbPolygon) return;
SplitOther ==
    /\ InSplit /\ Top.at = "entry"
    /\ Top.geometry # NoRef
    /\ LET g == Deref(heap, Top.geometry)
       IN  /\ ~IsEmpty(g)
           /\ getGeometryType(g) # "MultiPolygon"
           /\ ~IsPolygonType(g)
    /\ stack' = Return
    /\ UNCHANGED <<mainVars, pieces, heap, warnings, fault>>

\* Few enough points: pieces->push_back(polygon->clone()); return;
SplitEmit ==
    /\ InSplit /\ Top.at = "entry"
    /\ Top.geometry # NoRef
    /\ LET g == Deref(heap, Top.geometry)
       IN  /\ ~IsEmpty(g)
           /\ getGeometryType(g) # "MultiPolygon"
           /\ IsPolygonType(g)
           /\ FitsThreshold(getNumPoints(g), max_vertices)
           /\ heap' = Alloc(heap, g)
    /\ pieces' = Append(pieces, PiecePushed(heap, Top.geometry))
    /\ stack' = Return
    /\ UNCHANGED <<mainVars, warnings, fault>>

\* Too many points: go on to the subdivision.
SplitOversized ==
    /\ InSplit /\ Top.at = "entry"
    /\ Top.geometry # NoRef
    /\ LET g == Deref(heap, Top.geometry)
       IN  /\ ~IsEmpty(g)
           /\ getGeometryType(g) # "MultiPolygon"
           /\ IsPolygonType(g)
           /\ ~FitsThreshold(getNumPoints(g), max_vertices)
    /\ stack' = Goto([Top EXCEPT !.at = "repair", !.polygon = Top.geometry])
    /\ UNCHANGED <<mainVars, pieces, heap, warnings, fault>>

\* if (!IsValid() || !IsSimple()) { polygon = Buffer(0); pwned = true; }
SplitRepair ==
    /\ InSplit /\ Top.at = "repair"
    /\ LET g == Deref(heap, Top.polygon)
       IN  /\ ~(IsValid(g) /\ IsSimple(g))
           /\ heap' = Alloc(heap, Buffer(g))
           /\ stack' = Goto([Top EXCEPT !.at = "centroid",
                                        !.polygon = NewRef(heap, Buffer(g)),
                                        !.polygonIsPwned = TRUE,
                                        !.nbuf = Top.nbuf + 1])
    /\ UNCHANGED <<mainVars, pieces, warnings, fault>>

\* The polygon is valid and simple: it is used as it is.
SplitNoRepair ==
    /\ InSplit /\ Top.at = "repair"
    /\ LET g == Deref(heap, Top.polygon)
       IN  IsValid(g) /\ IsSimple(g)
    /\ stack' = Goto([Top EXCEPT !.at = "centroid"])
    /\ UNCHANGED <<mainVars, pieces, heap, warnings, fault>>

\* polygon->Centroid(&centroid); polygon->getEnvelope(&envelope);
SplitCentroid ==
    /\ InSplit /\ Top.at = "centroid"
    /\ LET g == Deref(heap, Subject(Top))
           c == Centroid(g)
       IN  stack' = Goto([Top EXCEPT !.at = "quad", !.cornerX = c[1],
                                     !.cornerY = c[2],
                                     !.envelope = getEnvelope(g),
                                     !.quadrant = 0])
    /\ UNCHANGED <<mainVars, pieces, heap, warnings, fault>>

\* piece = mask.Intersection(polygon); split_polygons(pieces, piece, ...)
SplitQuadrant ==
    /\ InSplit /\ Top.at = "quad"
    /\ Top.quadrant < 4
    /\ Depth < MaxDepth
    /\ LET mask == QuadrantMask(Top.envelope, Top.cornerX, Top.cornerY,
                                Top.quadrant)
       IN  \E g \in Intersection(mask, Deref(heap, Subject(Top))) :
               /\ heap' = Alloc(heap, g)
               /\ stack' = Append(Goto([Top EXCEPT !.at = "called",
                                                   !.bbox = mask,
                                                   !.piece = NewRef(heap, g)]),
                                  Frame(NewRef(heap, g)))
    /\ UNCHANGED <<mainVars, pieces, warnings, fault>>

\* delete piece; bbox and piece go out of scope; quadrant++
SplitDeletePiece ==
    /\ InSplit /\ Top.at = "called"
    /\ heap' = Delete(heap, PieceDeleted(Top))
    /\ fault' = (fault \/ DoubleFree(heap, PieceDeleted(Top)))
    /\ stack' = Goto([Top EXCEPT !.at = "quad", !.bbox = ZeroEnv,
                                 !.piece = NoRef,
                                 !.quadrant = Top.quadrant + 1])
    /\ UNCHANGED <<mainVars, pieces, warnings>>

\* if (polygonIsPwned) delete polygon; and the function returns.
SplitFinish ==
    /\ InSplit /\ Top.at = "quad"
    /\ Top.quadrant >= 4
    /\ heap' = IF Top.polygonIsPwned THEN Delete(heap, Top.polygon) ELSE heap
    /\ fault' = (fault \/ (Top.polygonIsPwned /\ DoubleFree(heap, Top.polygon)))
    /\ stack' = Return
    /\ UNCHANGED <<mainVars, pieces, warnings>>

\* A recursive call with the stack full: the process dies.
Calling ==
    \/ Top.at = "quad" /\ Top.quadrant < 4
    \/ Top.at = "multi"
       /\ Top.i < getNumGeometries(Deref(heap, Top.geometry))

StackOverflow ==
    /\ InSplit /\ Calling
    /\ Depth >= MaxDepth
    /\ pc' = "overflow"
    /\ UNCHANGED <<max_vertices, id_field, total, features_read,
                   features_written, feature, id, it, out, pre, returned,
                   pieces, stack, heap, warnings, fault>>

SplitStep ==
    \/ SplitNull
    \/ SplitEmpty
    \/ SplitMulti
    \/ SplitMember
    \/ SplitMultiDone
    \/ SplitOther
    \/ SplitEmit
    \/ SplitOversized
    \/ SplitRepair
    \/ SplitNoRepair
    \/ SplitCentroid
    \/ SplitQuadrant
    \/ SplitDeletePiece
    \/ SplitFinish

(* ------------------ split_polygons called on its own ------------------ *)

Pad == (MinOf(Xs) - 1 .. MaxOf(Xs) + 1) \X (MinOf(Ys) - 1 .. MaxOf(Ys) + 1)

\* No hole: what the region leaves of the window around it is connected.
HoleFree(s) == Connected4(Pad \ s)

\* The regions of the window, each in its lower left corner.
Shapes ==
    {s \in SUBSET (Xs \X Ys) :
        /\ s # {} /\ Cardinality(s) <= MaxArea
        /\ \E c \in s : c[1] = MinOf(Xs)
        /\ \E c \in s : c[2] = MinOf(Ys)
        /\ HoleFree(s)}

\* The lobes a self-crossing ring may wind the wrong way round.
NegChoices(s) ==
    IF Connected4(s) THEN {{}}
    ELSE {{}} \cup {Components(s)[k] : k \in 1 .. Len(Components(s))}

PolygonInputs ==
    {Geom("Polygon", <<p[1]>>, p[2], FALSE) :
        p \in UNION {{<<s, n>> : n \in NegChoices(s)} :
                        s \in {t \in Shapes : Connected8(t)
                                                /\ Len(Components(t)) <= 2}}}

MultiPolygonInputs ==
    {Geom("MultiPolygon", Components(s), {}, FALSE) :
        s \in {t \in Shapes : Len(Components(t)) = 2}}

OtherInputs ==
    {NullGeom, EmptyGeom, Polygon({}), LineGeom,
     Geom("GeometryCollection", <<{<<0, 0>>}>>, {}, TRUE),
     Polygon(SquareCells)}

FnInputs == PolygonInputs \cup MultiPolygonInputs \cup OtherInputs

\* The polygons with a five-point ring, the square of the concrete scenario
\* among them.
Rectangles ==
    {g \in PolygonInputs : IsValid(g) /\ getNumPoints(g) = 5}
        \cup {Polygon(SquareCells)}

\* The calls made: every input with the smallest threshold main accepts;
\* every polygon whose ring has 5 to 9 points with exactly that many as the
\* threshold; the valid polygons with a threshold of 7; and the rectangles
\* with the threshold of the concrete scenario, which is below the 5 points
\* of their rings.
FnCalls ==
    ({6} \X FnInputs)
        \cup {<<getNumPoints(g), g>> :
                 g \in {p \in PolygonInputs : getNumPoints(p) \in 5 .. 9}}
        \cup ({7} \X {p \in PolygonInputs : IsValid(p)})
        \cup ({4} \X Rectangles)

\* A piece the caller already holds in the list.
EarlierPiece == Polygon({<<0, 0>>})

\* split_polygons(&pieces, geometry, max_vertices), the list holding one
\* piece already.
InitFn ==
    /\ id_field = -1
    /\ total = 1
    /\ pc = "split"
    /\ features_read = 0
    /\ features_written = 0
    /\ it = 0
    /\ id = 0
    /\ out = <<>>
    /\ warnings = 0
    /\ fault = FALSE
    /\ returned = <<>>
    /\ \E call \in FnCalls :
        LET g == call[2]
            h0 == Alloc(<<>>, EarlierPiece)
        IN  /\ max_vertices = call[1]
            /\ heap = Alloc(h0, g)
            /\ pieces = <<Ref(1, 0)>>
            /\ pre = pieces
            /\ feature = [fid |-> 0, field |-> 0, geometry |-> NewRef(h0, g),
                          value |-> g]
            /\ stack = <<Frame(NewRef(h0, g))>>

NextFn == SplitStep \/ StackOverflow

SpecFn == InitFn /\ [][NextFn]_vars

\* The call runs on: a step that can be taken is taken.
FairSpecFn == SpecFn /\ WF_vars(NextFn)

(* -------------------------------- main -------------------------------- *)

\* The features the input layer may hold: no geometry, an empty polygon, a
\* line, a square, an L (a ring of 7 points), a ring that touches itself
\* (9 points), and a multipolygon of two squares.
MainInputs ==
    {NullGeom, Polygon({}), LineGeom, Polygon({<<0, 0>>}),
     Polygon({<<0, 0>>, <<1, 0>>, <<0, 1>>}),
     Polygon({<<0, 0>>, <<1, 1>>}),
     Geom("MultiPolygon", <<{<<0, 0>>}, {<<2, 0>>}>>, {}, FALSE)}

\* The values the ID field of a feature may hold.
FieldValues == {10, 11}

\* The -m arguments tried: the largest one refused, and two accepted.
MainArgs == 5 .. 7

\* A variant of the identifier that is the FID whatever id_field says.
RecordIdFid(idf, f) == f.fid

\* id = (id_field >= 0 ? GetFieldAsInteger(id_field) : GetFID())
\* feature_id_t is int; the field values and the FIDs of the layers modelled
\* are far inside its range.
RecordId(idf, f) == IF idf >= 0 THEN f.field ELSE f.fid

\* The identifier write_feature stores in field 0 of the new feature.
WrittenId(given) == given

NoFeature == [fid |-> 0, field |-> 0, geometry |-> NoRef, value |-> NullGeom]

Init ==
    /\ max_vertices \in MainArgs
    /\ id_field \in {-1, 0}
    /\ total \in 0 .. MaxRecords
    /\ pc = "start"
    /\ features_read = 0
    /\ features_written = 0
    /\ feature = NoFeature
    /\ id = 0
    /\ it = 0
    /\ pieces = <<>>
    /\ stack = <<>>
    /\ heap = <<>>
    /\ out = <<>>
    /\ warnings = 0
    /\ fault = FALSE
    /\ pre = <<>>
    /\ returned = <<>>

\* if (argc < 2 || max_vertices <= 5) usage();
MainUsage ==
    /\ pc = "start"
    /\ max_vertices <= 5
    /\ pc' = "usage"
    /\ UNCHANGED <<max_vertices, id_field, total, features_read,
                   features_written, feature, id, it, pieces, stack, heap,
                   out, warnings, fault, pre, returned>>

\* The source, its layer, the ID field and the destination open: on to the
\* main loop.  Or one of them fails: exit(1).
MainSetup ==
    /\ pc = "start"
    /\ max_vertices > 5
    /\ \E ok \in BOOLEAN : pc' = (IF ok THEN "read" ELSE "exit")
    /\ UNCHANGED <<max_vertices, id_field, total, features_read,
                   features_written, feature, id, it, pieces, stack, heap,
                   out, warnings, fault, pre, returned>>

\* feature = GetNextFeature(); OGRPolyList pieces; id = ...;
\* split_polygons(&pieces, geometry, max_vertices) is called.
MainRead ==
    /\ pc = "read"
    /\ features_read < total
    /\ \E g \in MainInputs, field \in FieldValues :
        LET f == [fid |-> features_read, field |-> field,
                  geometry |-> NewRef(heap, g), value |-> g]
        IN  /\ feature' = f
            /\ heap' = Alloc(heap, g)
            /\ id' = RecordId(id_field, f)
            /\ stack' = <<Frame(f.geometry)>>
    /\ pieces' = <<>>
    /\ pre' = <<>>
    /\ it' = 0
    /\ pc' = "split"
    /\ UNCHANGED <<max_vertices, id_field, total, features_read,
                   features_written, out, warnings, fault, returned>>

\* split_polygons has returned: it = pieces.begin()
MainSplitReturned ==
    /\ pc = "split"
    /\ Depth = 0
    /\ pc' = "write"
    /\ it' = 1
    /\ returned' = Append(returned,
                          [fid |-> feature.fid, field |-> feature.field,
                           value |-> feature.value,
                           geoms |-> [k \in 1 .. Len(pieces) |->
                                         Deref(heap, pieces[k])]])
    /\ UNCHANGED <<max_vertices, id_field, total, features_read,
                   features_written, feature, id, pieces, stack, heap, out,
                   warnings, fault, pre>>

\* write_feature(destLayer, *it, id); features_written++; it++
\* The new feature owns the piece and DestroyFeature frees it.  src is
\* history: the input feature the piece was made of.
MainWrite ==
    /\ pc = "write"
    /\ it <= Len(pieces)
    /\ out' = Append(out, [id |-> WrittenId(id), src |-> feature.fid,
                           geometry |-> Deref(heap, pieces[it])])
    /\ heap' = Delete(heap, pieces[it])
    /\ fault' = (fault \/ DoubleFree(heap, pieces[it]))
    /\ features_written' = features_written + 1
    /\ it' = it + 1
    /\ UNCHANGED <<max_vertices, id_field, total, pc, features_read, feature,
                   id, pieces, stack, warnings, pre, returned>>

\* CreateFeature fails: "Failed to create feature in output." and exit(1).
MainWriteFails ==
    /\ pc = "write"
    /\ it <= Len(pieces)
    /\ pc' = "exit"
    /\ UNCHANGED <<max_vertices, id_field, total, features_read,
                   features_written, feature, id, it, pieces, stack, heap,
                   out, warnings, fault, pre, returned>>

\* The pieces are written: features_read++; DestroyFeature(feature), which
\* frees the input geometry; the piece list goes out of scope.
MainNext ==
    /\ pc = "write"
    /\ it > Len(pieces)
    /\ features_read' = features_read + 1
    /\ heap' = Delete(heap, feature.geometry)
    /\ fault' = (fault \/ DoubleFree(heap, feature.geometry))
    /\ feature' = NoFeature
    /\ pieces' = <<>>
    /\ it' = 0
    /\ pc' = "read"
    /\ UNCHANGED <<max_vertices, id_field, total, features_written, id, stack,
                   out, warnings, pre, returned>>

\* GetNextFeature() returns NULL: the data sources are closed.
MainDone ==
    /\ pc = "read"
    /\ features_read >= total
    /\ pc' = "done"
    /\ UNCHANGED <<max_vertices, id_field, total, features_read,
                   features_written, feature, id, it, pieces, stack, heap,
                   out, warnings, fault, pre, returned>>

Next ==
    \/ MainUsage
    \/ MainSetup
    \/ MainRead
    \/ MainSplitReturned
    \/ MainWrite
    \/ MainWriteFails
    \/ MainNext
    \/ MainDone
    \/ SplitStep

Spec == Init /\ [][Next]_vars

(* ------------------ what split_polygons computes --------------------- *)

\* The pieces split_polygons appends for a geometry, as a function of the
\* geometry: the same steps as the actions above, one after the other.  A
\* mask of no width or no height leaves no piece whatever the engine answers.
\* fuel is the depth left on the stack.
RECURSIVE SplitSeq(_, _, _)
RECURSIVE SplitMembers(_, _, _, _)
RECURSIVE SplitQuadrants(_, _, _, _, _, _)
SplitSeq(g, T, fuel) ==
    IF fuel = 0 \/ g = NullGeom THEN <<>>
    ELSE IF IsEmpty(g) THEN <<>>
    ELSE IF getGeometryType(g) = "MultiPolygon"
        THEN SplitMembers(g, T, fuel - 1, 0)
    ELSE IF ~IsPolygonType(g) THEN <<>>
    ELSE IF FitsThreshold(getNumPoints(g), T) THEN <<g>>
    ELSE LET polygon == IF ~(IsValid(g) /\ IsSimple(g)) THEN Buffer(g) ELSE g
         IN  SplitQuadrants(polygon, Centroid(polygon), getEnvelope(polygon),
                            T, fuel - 1, 0)

SplitMembers(g, T, fuel, i) ==
    IF i >= getNumGeometries(g) THEN <<>>
    ELSE SplitSeq(Polygon(g.parts[i + 1]), T, fuel)
             \o SplitMembers(g, T, fuel, i + 1)

SplitQuadrants(polygon, c, e, T, fuel, quadrant) ==
    IF quadrant >= 4 THEN <<>>
    ELSE LET mask == QuadrantMask(e, c[1], c[2], quadrant)
             piece == CHOOSE r \in Intersection(mask, polygon) : TRUE
         IN  SplitSeq(piece, T, fuel)
                 \o SplitQuadrants(polygon, c, e, T, fuel, quadrant + 1)

(* ----------------------------- properties ----------------------------- *)

\* The call of split_polygons made on its own has returned.
Returned == pc = "split" /\ Depth = 0

\* The geometry the call was made on.
Input == feature.value

InputIsPolygon == getGeometryType(Input) = "Polygon" /\ ~IsEmpty(Input)

NewCount == Len(pieces) - Len(pre)

PieceGeom(k) == Deref(heap, pieces[k])

\* The pieces the call has appended so far, in order.
NewGeoms == [k \in 1 .. NewCount |-> PieceGeom(Len(pre) + k)]

\* The geometry frame k was called on.
FrameGeom(k) ==
    IF stack[k].geometry = NoRef THEN NullGeom
    ELSE Deref(heap, stack[k].geometry)

RECURSIVE SumArea(_)
SumArea(gs) ==
    IF gs = <<>> THEN 0
    ELSE Cardinality(CellsOf(Head(gs))) + SumArea(Tail(gs))

UnionCells(gs) == UNION {CellsOf(gs[k]) : k \in DOMAIN gs}

\* C1: whatever the input (polygon, multipolygon, invalid polygon, anything
\* else) and whatever the threshold, every piece split_polygons has appended
\* to the list is a polygon whose exterior ring has at most max_vertices
\* points; this holds all along the recursion and so when the call returns.
C1_PiecesFit ==
    \A k \in Len(pre) + 1 .. Len(pieces) :
        /\ Live(heap, pieces[k])
        /\ getGeometryType(PieceGeom(k)) = "Polygon"
        /\ getNumPoints(PieceGeom(k)) <= max_vertices

\* An invalid polygon with too many points has been split into several
\* pieces and the call has returned.
C1_Witness ==
    /\ Returned
    /\ InputIsPolygon /\ ~IsValid(Input)
    /\ getNumPoints(Input) > max_vertices
    /\ NewCount >= 2

\* C2: a non-empty polygon whose ring has at most max_vertices points (as
\* many as max_vertices included) never gets past the point test, in any
\* activation: no repair, centroid, envelope or intersection is made for it.
\* Called on such a polygon, split_polygons appends exactly one piece, equal
\* to the polygon, at an address of its own, and creates nothing else.
C2_SmallPolygonCopied ==
    /\ \A k \in 1 .. Depth :
        (stack[k].at \in {"repair", "centroid", "quad", "called"})
            => getNumPoints(FrameGeom(k)) > max_vertices
    /\ (Returned /\ InputIsPolygon /\ getNumPoints(Input) <= max_vertices)
        => /\ NewCount = 1
           /\ SubSeq(pieces, 1, Len(pre)) = pre
           /\ PieceGeom(Len(pieces)) = Input
           /\ pieces[Len(pieces)].obj # feature.geometry.obj
           /\ Deref(heap, feature.geometry) = Input
           /\ DOMAIN heap = {feature.geometry.obj, pieces[Len(pieces)].obj}
                                \cup {pre[k].obj : k \in DOMAIN pre}

\* A ring of exactly 5 points with max_vertices = 5 has come back as one
\* piece, after the piece the list already held.
C2_Witness ==
    /\ Returned
    /\ InputIsPolygon
    /\ max_vertices = 5 /\ getNumPoints(Input) = 5
    /\ Len(pre) = 1 /\ Len(pieces) = 2
    /\ PieceGeom(2) = Input

\* C3: called on a multipolygon, split_polygons appends the pieces of its
\* first member, then those of its second, and so on: what it has appended
\* when it returns is the concatenation, in member order, of what it appends
\* for each member alone.  (For any input, what it has appended is what
\* SplitSeq gives for it.)  The pieces the list held before the call are
\* still there, in their places, unchanged.
C3_MembersInOrder ==
    Returned =>
        /\ NewGeoms = SplitSeq(Input, max_vertices, MaxDepth)
        /\ getGeometryType(Input) = "MultiPolygon" =>
               NewGeoms = SplitMembers(Input, max_vertices, MaxDepth, 0)
        /\ SubSeq(pieces, 1, Len(pre)) = pre
        /\ \A k \in 1 .. Len(pre) : PieceGeom(k) = EarlierPiece

\* A multipolygon whose first member was split into several pieces and
\* whose second member gave pieces too, with a piece already in the list.
C3_Witness ==
    /\ Returned
    /\ getGeometryType(Input) = "MultiPolygon"
    /\ Len(pre) = 1
    /\ Len(SplitSeq(Polygon(Input.parts[1]), max_vertices, MaxDepth)) >= 2
    /\ Len(SplitSeq(Polygon(Input.parts[2]), max_vertices, MaxDepth)) >= 1
    /\ NewCount >= 3

\* C6 as the specification states it: when split_polygons returns from a
\* call on a valid polygon, the pieces appended cover the polygon exactly
\* and their areas add up to its area.
C6_AreaPreserved ==
    (Returned /\ InputIsPolygon /\ IsValid(Input))
        => /\ UnionCells(NewGeoms) = CellsOf(Input)
           /\ SumArea(NewGeoms) = Cardinality(CellsOf(Input))

\* The square of the concrete scenario and its lower left quadrant.
Square == Polygon(SquareCells)

QuadrantSquare == Polygon((0 .. 4) \X (0 .. 4))

SquareScenario == Input = Square /\ max_vertices = 4

\* C7 as the specification states it: the call on the square with
\* max_vertices = 4 comes back, and with exactly 4 pieces, each a square of
\* side 5 and area 25, 100 in all.
C7_FourQuadrants ==
    SquareScenario =>
        /\ pc # "overflow"
        /\ Returned =>
            /\ NewCount = 4
            /\ \A k \in 1 .. NewCount :
                /\ getNumPoints(NewGeoms[k]) = 5
                /\ Cardinality(CellsOf(NewGeoms[k])) = 25
            /\ SumArea(NewGeoms) = 100

\* C7, amended: on the square with max_vertices = 4 the ring has 5 points,
\* more than 4, so the square is cut at its centroid (5,5); the first
\* quadrant intersection is the square of side 5 and area 25, whose ring
\* has 5 points again, so it is cut in turn and not appended.  No piece is
\* ever appended and the call does not return.
C7_SquareNeverEmitted ==
    SquareScenario =>
        /\ pieces = pre
        /\ ~Returned
        /\ Depth >= 2 =>
            /\ stack[1].cornerX = 5 /\ stack[1].cornerY = 5
            /\ stack[1].quadrant = 0
            /\ FrameGeom(2) = QuadrantSquare
            /\ getNumPoints(FrameGeom(2)) = 5
            /\ Cardinality(CellsOf(FrameGeom(2))) = 25
            /\ stack[2].at # "entry" => Depth >= 3 \/ stack[2].quadrant = 0

\* The quadrant square of side 5 is itself being cut into quadrants.
C7_Witness ==
    /\ SquareScenario
    /\ Depth >= 3
    /\ stack[2].at = "called"
    /\ FrameGeom(2) = QuadrantSquare

(* ---- repair ---- *)

NeedsRepair(g) == ~(IsValid(g) /\ IsSimple(g))

\* The polygon a call on g has to work on once past the repair.
Repaired(g) == IF NeedsRepair(g) THEN Buffer(g) ELSE g

PieceOf(f) == IF f.piece = NoRef THEN NullGeom ELSE Deref(heap, f.piece)

\* C9: in the activation that is running, if it has gone on to the
\* subdivision (its polygon has more than max_vertices points) and is past
\* the validity test: if the polygon is not valid or not simple, exactly one
\* Buffer(0) was made, the local polygon points to its result and not to the
\* argument, and the centroid, the envelope and the quadrant intersection
\* just made are those of the buffered polygon; if the polygon is valid and
\* simple, no buffer was made and all of them are those of the argument.
C9_RepairedSupersedes ==
    (Depth > 0 /\ Top.at \in {"centroid", "quad", "called"}) =>
        LET f == Top
            g == FrameGeom(Depth)
            bad == NeedsRepair(g)
            subject == Repaired(g)
        IN  /\ getNumPoints(g) > max_vertices
            /\ f.nbuf = (IF bad THEN 1 ELSE 0)
            /\ f.polygonIsPwned = bad
            /\ (f.polygon = f.geometry) = ~bad
            /\ Deref(heap, f.polygon) = subject
            /\ (f.at \in {"quad", "called"}) =>
                /\ <<f.cornerX, f.cornerY>> = Centroid(subject)
                /\ f.envelope = getEnvelope(subject)
            /\ (f.at = "called") =>
                /\ f.bbox \in {Envelope(f.envelope.MinX, f.envelope.MinY,
                                        f.cornerX, f.cornerY),
                               Envelope(f.envelope.MinX, f.cornerY,
                                        f.cornerX, f.envelope.MaxY),
                               Envelope(f.cornerX, f.envelope.MinY,
                                        f.envelope.MaxX, f.cornerY),
                               Envelope(f.cornerX, f.cornerY,
                                        f.envelope.MaxX, f.envelope.MaxY)}
                /\ PieceOf(f) \in Intersection(f.bbox, subject)

\* The call on a self-crossing ring is in its last quadrant, and the
\* buffered polygon has another centroid and envelope than the ring given.
C9_Witness ==
    /\ Depth >= 2
    /\ stack[1].at = "called" /\ stack[1].quadrant = 3
    /\ NeedsRepair(Input) /\ Input.neg # {}
    /\ stack[1].polygonIsPwned
    /\ Centroid(Buffer(Input)) # Centroid(Input)
    /\ getEnvelope(Buffer(Input)) # getEnvelope(Input)

(* ---- ownership ---- *)

\* The objects the activations on the stack own: the intersection result a
\* quadrant loop is recursing on, and the buffered polygon.
FramePieces == {k \in 1 .. Depth : stack[k].at = "called"
                                     /\ stack[k].piece # NoRef}

FrameBuffers == {k \in 1 .. Depth : stack[k].polygonIsPwned}

InputObjs == IF feature.geometry = NoRef THEN {} ELSE {feature.geometry.obj}

PieceObjs == {pieces[k].obj : k \in DOMAIN pieces}

\* C10: all along a call of split_polygons and when it returns: nothing was
\* freed twice; the caller's geometry is live and is the geometry given; the
\* pieces the list held are untouched; every pointer an activation still
\* uses (its argument, its polygon, the intersection result it recurses on)
\* points to a live object; the live objects are exactly the caller's
\* geometry, the pieces of the list, and one intersection result per quadrant
\* loop in progress and one buffered polygon per activation that repaired,
\* all at different addresses (so no piece is the input or an intermediate);
\* hence at the return only the input and the pieces are live.
C10_Ownership ==
    /\ ~fault
    /\ feature.geometry # NoRef =>
           Live(heap, feature.geometry) /\ Deref(heap, feature.geometry) = Input
    /\ SubSeq(pieces, 1, Len(pre)) = pre
    /\ \A k \in 1 .. Len(pre) : PieceGeom(k) = EarlierPiece
    /\ \A k \in 1 .. Depth :
        /\ stack[k].geometry # NoRef => Live(heap, stack[k].geometry)
        /\ stack[k].at \in {"repair", "centroid", "quad", "called"} =>
               Live(heap, stack[k].polygon)
        /\ k \in FramePieces =>
               /\ Live(heap, stack[k].piece)
               /\ k < Depth => stack[k + 1].geometry = stack[k].piece
    /\ DOMAIN heap = InputObjs \cup PieceObjs
                        \cup {stack[k].piece.obj : k \in FramePieces}
                        \cup {stack[k].polygon.obj : k \in FrameBuffers}
    /\ Cardinality(DOMAIN heap) =
           Cardinality(InputObjs) + Len(pieces) + Cardinality(FramePieces)
               + Cardinality(FrameBuffers)
    /\ Returned => DOMAIN heap = InputObjs \cup PieceObjs

\* A call that repaired its polygon and recursed on intersection results has
\* returned with several new pieces.
C10_Witness ==
    /\ Returned
    /\ InputIsPolygon /\ NeedsRepair(Input)
    /\ getNumPoints(Input) > max_vertices
    /\ NewCount >= 2
    /\ Cardinality(DOMAIN heap) = 1 + Len(pieces)

(* ---- termination ---- *)

Width(e) == e.MaxX - e.MinX

Height(e) == e.MaxY - e.MinY

\* Every recursive call on a quadrant intersection in progress is confined
\* to its mask, the mask is a quadrant of the envelope with one corner at
\* the centroid, and for a polygon that needed no repair the mask is
\* narrower and lower than the envelope.
QuadrantsShrink ==
    \A k \in 1 .. Depth - 1 :
        LET f == stack[k]
        IN  (f.at = "called") =>
                /\ \A c \in CellsOf(FrameGeom(k + 1)) : InMask(c, f.bbox)
                /\ f.envelope.MinX <= f.bbox.MinX
                /\ f.bbox.MaxX <= f.envelope.MaxX
                /\ f.envelope.MinY <= f.bbox.MinY
                /\ f.bbox.MaxY <= f.envelope.MaxY
                /\ f.cornerX \in {f.bbox.MinX, f.bbox.MaxX}
                /\ f.cornerY \in {f.bbox.MinY, f.bbox.MaxY}
                /\ ~f.polygonIsPwned =>
                    /\ Width(f.bbox) < Width(f.envelope)
                    /\ Height(f.bbox) < Height(f.envelope)

NothingToSplit(g) ==
    \/ g = NullGeom
    \/ IsEmpty(g)
    \/ getGeometryType(g) \notin {"Polygon", "MultiPolygon"}

\* A step taken while the activation running was called on such a geometry:
\* the activation returns at once, the list, the heap and the output are as
\* they were, nothing is at fault, and a warning is printed exactly when the
\* pointer is NULL.
ReturnsEmptyHanded ==
    (InSplit /\ Top.at = "entry" /\ NothingToSplit(FrameGeom(Depth))) =>
        /\ stack' = Return
        /\ pieces' = pieces
        /\ heap' = heap
        /\ out' = out
        /\ pc' = "split"
        /\ ~fault'
        /\ warnings' = (IF FrameGeom(Depth) = NullGeom /\ warnings < MaxWarnings
                        THEN warnings + 1 ELSE warnings)

\* A step main takes once split_polygons has returned from a feature with
\* such a geometry: there is no piece and nothing is written, and main goes
\* on to the write loop and from there to the next feature.
MainGoesOn ==
    (NothingToSplit(feature.value) /\ Depth = 0 /\ pc \in {"split", "write"}) =>
        /\ pieces = <<>>
        /\ out' = out
        /\ features_written' = features_written
        /\ pc = "split" => pc' = "write"
        /\ pc = "write" =>
               pc' = "read" /\ features_read' = features_read + 1

\* C4: split_polygons called on NULL, on an empty geometry, or on a geometry
\* that is neither a polygon nor a multipolygon returns with the piece list
\* unchanged and no fatal error; only the NULL case prints a warning; and
\* main then goes on to the next feature.
C4_NothingToSplit == [][ReturnsEmptyHanded /\ MainGoesOn]_vars

\* A feature without geometry and then a feature with a line have been
\* processed: one warning, nothing written, main ready for the next feature.
C4_Witness ==
    /\ pc = "read"
    /\ features_read = 2
    /\ Len(returned) = 2
    /\ returned[1].value = NullGeom /\ returned[1].geoms = <<>>
    /\ returned[2].value = LineGeom /\ returned[2].geoms = <<>>
    /\ warnings = 1
    /\ out = <<>>

(* ---- main loop ---- *)

\* The identifier the output features of an input feature must carry.
IdOf(r) == IF id_field >= 0 THEN r.field ELSE r.fid

\* Whether the feature read last is still in the write loop (or main died
\* in it), and how many of its pieces are written.
InWriteLoop ==
    pc \in {"write", "exit"} /\ Len(returned) = features_read + 1

Written(j) ==
    IF j = Len(returned) /\ InWriteLoop THEN it - 1
    ELSE Len(returned[j].geoms)

\* The output the first j features must have given.
RECURSIVE OutUpTo(_)
OutUpTo(j) ==
    IF j = 0 THEN <<>>
    ELSE OutUpTo(j - 1)
             \o [k \in 1 .. Written(j) |->
                     [id |-> IdOf(returned[j]), src |-> returned[j].fid,
                      geometry |-> returned[j].geoms[k]]]

RECURSIVE PiecesUpTo(_)
PiecesUpTo(j) ==
    IF j = 0 THEN 0 ELSE PiecesUpTo(j - 1) + Len(returned[j].geoms)

\* C8: split_polygons has returned exactly once for every feature read, in
\* the order read; the output is, feature after feature, one output feature
\* per piece returned, in order, carrying the value of the ID field of that
\* input feature if an ID field was given and its FID otherwise; all the
\* pieces of a feature are written before the next feature is read; and
\* features_written counts the output features, which between two features
\* is the number of pieces returned so far.
C8_OnePerPiece ==
    /\ Len(returned) = features_read
                         + (IF pc = "write" \/ InWriteLoop THEN 1 ELSE 0)
    /\ \A j \in 1 .. Len(returned) : returned[j].fid = j - 1
    /\ out = OutUpTo(Len(returned))
    /\ features_written = Len(out)
    /\ pc \in {"read", "done"} =>
           features_written = PiecesUpTo(Len(returned))

\* Two features with different values in the ID field, each split into at
\* least two pieces, are written and the input is exhausted.
C8_Witness ==
    /\ pc = "done"
    /\ id_field = 0
    /\ features_read = 2
    /\ Len(returned[1].geoms) >= 2 /\ Len(returned[2].geoms) >= 2
    /\ returned[1].field # returned[2].field
    /\ out[1].id # out[Len(out)].id
    /\ out[1].id # out[1].src

====
